---- MODULE Spec2Model ----
(***************************************************************************)
(* Model of opentimestamps/core/op.py: the timestamp proof operations, the *)
(* tag registries built by the _register_op decorators, the wire encoding  *)
(* (serialize / deserialize), the comparison operators, and the operations *)
(* applied to messages (__call__, hash_fd).                                *)
(*                                                                         *)
(* Python values are represented as follows.                               *)
(*   bytes      a sequence of integers in 0..255                           *)
(*   a class    its name, a string                                         *)
(*   an Op      [cls |-> class name, args |-> the tuple the Op is]         *)
(*   a dict     a function whose DOMAIN is the set of keys                 *)
(*   exception  [type |-> class name, msg |-> the message, in pieces]      *)
(***************************************************************************)
EXTENDS Integers, Sequences, FiniteSets

VARIABLES
    SUBCLS_BY_TAG,  \* the four SUBCLS_BY_TAG dicts, by the class that owns each
    loaded,         \* how many @_register_op decorators have run
    wbuf,           \* bytes written to the serialization context
    written,        \* the operations serialized into wbuf, in order
    ropen,          \* a deserialization context has been opened
    rbuf,           \* the bytes the deserialization context reads
    rpos,           \* how many bytes of rbuf have been read
    returned,       \* the operations deserialize has returned, in order
    entry,          \* the class the last deserialize was called on
    ret,            \* the operation the last deserialize returned
    exc,            \* what the last call raised
    operands,       \* three operations handed to the comparison operators
    cmp,            \* what the comparison operators returned for each pair
    callee,         \* the operation applied to msg
    msg,            \* the message an operation is applied to
    out,            \* the bytes the last __call__ or hash_fd returned
    done,           \* the call under way has returned or raised
    fpos,           \* how many bytes of msg the file object has delivered
    hasher,         \* the hashlib object of hash_fd
    delivered,      \* the chunks fd.read has returned, in order
    fed,            \* the chunks passed to hasher.update, in order
    hpc             \* where hash_fd is: "idle", "loop" or "done"

regVars == <<SUBCLS_BY_TAG, loaded>>

wireVars == <<wbuf, written, ropen, rbuf, rpos, returned, entry, ret>>

cmpVars == <<operands, cmp>>

callVars == <<callee, msg, out, done>>

hashVars == <<fpos, hasher, delivered, fed, hpc>>

vars == <<regVars, wireVars, exc, cmpVars, callVars, hashVars>>

-----------------------------------------------------------------------------
(* Bounds of the model *)

\* longest short argument of the operations written to a stream
MaxArgLen == 1
\* most operations serialized into one stream
MaxOps == 2
\* capacity of the writer, in bytes
MaxStreamLen == 65541
\* longest short argument of the operations sent on a round trip
MaxTripLen == 5
\* longest argument of the operations compared
MaxCmpLen == 2
\* longest message an operation is applied to
MaxMsgLen == 130
\* longest message hashed from a file object
MaxHashLen == 4

\* bytes the short arguments are made of: a digest tag and a binary tag
ArgBytes == {2, 240}
\* lengths of the long arguments written to a stream: where the varuint
\* takes a second byte, and the cap of BinaryOp.deserialize_from_tag
StreamLens == {128, 65536}
\* lengths of the long arguments sent on a round trip
TripLens == {128, 16384, 65535, 65536, 65537}
\* lengths a crafted stream declares for its argument
DeclaredLens == {0, 1, 2, 127, 128, 65535, 65536, 65537, 70000}
\* first bytes of the crafted streams: the catalogue's tags and four others
CraftTags == {2, 3, 8, 240, 241, 242, 243, 0, 1, 244, 255}

-----------------------------------------------------------------------------
(* Helpers for bytes *)

Min(x, y) == IF x <= y THEN x ELSE y

\* n bytes that differ from their neighbours, from first up
Pattern(first, n) == [i \in 1..n |-> first + (i % 4)]

\* the byte strings of at most n bytes, each byte from alphabet
RECURSIVE BytesUpTo(_, _)
BytesUpTo(alphabet, n) ==
    IF n = 0 THEN {<<>>}
    ELSE LET shorter == BytesUpTo(alphabet, n - 1)
         IN shorter \cup {Append(s, x) : s \in {t \in shorter : Len(t) = n - 1},
                                          x \in alphabet}

-----------------------------------------------------------------------------
(* The classes *)

ShapeClasses == {"Op", "UnaryOp", "BinaryOp", "CryptOp"}

VariantClasses == {"OpAppend", "OpPrepend", "OpReverse", "OpHexlify",
                   "OpSHA1", "OpRIPEMD160", "OpSHA256"}

Classes == ShapeClasses \cup VariantClasses

\* cls.__base__
Base(cls) ==
    CASE cls = "UnaryOp" -> "Op"
      [] cls = "BinaryOp" -> "Op"
      [] cls = "CryptOp" -> "UnaryOp"
      [] cls \in {"OpAppend", "OpPrepend"} -> "BinaryOp"
      [] cls \in {"OpReverse", "OpHexlify"} -> "UnaryOp"
      [] cls \in {"OpSHA1", "OpRIPEMD160", "OpSHA256"} -> "CryptOp"
      [] OTHER -> "tuple"

\* subcls.TAG
TAG(cls) ==
    CASE cls = "OpAppend" -> <<240>>
      [] cls = "OpPrepend" -> <<241>>
      [] cls = "OpReverse" -> <<242>>
      [] cls = "OpHexlify" -> <<243>>
      [] cls = "OpSHA1" -> <<2>>
      [] cls = "OpRIPEMD160" -> <<3>>
      [] cls = "OpSHA256" -> <<8>>

\* the class whose own SUBCLS_BY_TAG the attribute lookup cls.SUBCLS_BY_TAG finds
RECURSIVE RegistryOf(_)
RegistryOf(cls) ==
    IF cls \in ShapeClasses THEN cls ELSE RegistryOf(Base(cls))

\* the class whose serialize, deserialize_from_tag and __new__ cls inherits
RECURSIVE Resolve(_)
Resolve(cls) ==
    IF cls \in {"Op", "UnaryOp", "BinaryOp"} THEN cls ELSE Resolve(Base(cls))

-----------------------------------------------------------------------------
(* Exceptions and results *)

NoExc == [type |-> "None", msg |-> <<>>]

NoneOp == [cls |-> "None", args |-> <<>>]

NoHasher == [name |-> "None", h |-> 0, n |-> 0]

HexDigit(d) ==
    <<"0", "1", "2", "3", "4", "5", "6", "7",
      "8", "9", "a", "b", "c", "d", "e", "f">>[d + 1]

\* "%0x" % n
RECURSIVE Hex(_)
Hex(n) ==
    IF n < 16 THEN <<HexDigit(n)>>
    ELSE Append(Hex(n \div 16), HexDigit(n % 16))

DeserializationError(text, tag) ==
    [type |-> "DeserializationError", msg |-> <<text>> \o Hex(tag[1])]

TypeError(text) == [type |-> "TypeError", msg |-> <<text>>]

-----------------------------------------------------------------------------
(* opentimestamps.core.serialize: the contexts op.py writes to and reads   *)
(* from.  A writer is the bytes written so far; a read returns the value,  *)
(* the exception and the position after it.                                *)

write_bytes(buf, value) == buf \o value

RECURSIVE write_varuint(_, _)
write_varuint(buf, value) ==
    IF value <= 127 THEN Append(buf, value)
    ELSE write_varuint(Append(buf, 128 + (value % 128)), value \div 128)

write_varbytes(buf, value) ==
    write_bytes(write_varuint(buf, Len(value)), value)

Truncated == [type |-> "DeserializationError", msg |-> <<"truncated">>]

read_bytes(buf, pos, n) ==
    IF pos + n <= Len(buf)
    THEN [val |-> SubSeq(buf, pos + 1, pos + n), exc |-> NoExc, pos |-> pos + n]
    ELSE [val |-> <<>>, exc |-> Truncated, pos |-> Len(buf)]

RECURSIVE read_varuint_from(_, _, _, _)
read_varuint_from(buf, pos, value, weight) ==
    IF pos >= Len(buf)
    THEN [val |-> 0, exc |-> Truncated, pos |-> Len(buf)]
    ELSE LET byte == buf[pos + 1]
             v == value + (byte % 128) * weight
         IN IF byte < 128
            THEN [val |-> v, exc |-> NoExc, pos |-> pos + 1]
            ELSE read_varuint_from(buf, pos + 1, v, weight * 128)

read_varuint(buf, pos) == read_varuint_from(buf, pos, 0, 1)

TooLong ==
    [type |-> "DeserializationError", msg |-> <<"varbytes max length exceeded">>]

read_varbytes(buf, pos, max_len) ==
    LET l == read_varuint(buf, pos)
    IN IF l.exc # NoExc THEN [val |-> <<>>, exc |-> l.exc, pos |-> l.pos]
       ELSE IF l.val > max_len THEN [val |-> <<>>, exc |-> TooLong, pos |-> l.pos]
       ELSE read_bytes(buf, l.pos, l.val)

-----------------------------------------------------------------------------
(* Construction *)

PyBytes(b) == [type |-> "bytes", val |-> b]

PyStr(s) == [type |-> "str", val |-> s]

UnaryOp_new(cls) == [ret |-> [cls |-> cls, args |-> <<>>], exc |-> NoExc]

BinaryOp_new(cls, arg) ==
    IF arg.type # "bytes"
    THEN [ret |-> NoneOp, exc |-> TypeError("arg must be bytes")]
    ELSE [ret |-> [cls |-> cls, args |-> <<arg.val>>], exc |-> NoExc]

-----------------------------------------------------------------------------
(* The registries *)

\* the @_register_op decorators of the module, in the order they run
Decorators ==
    << <<"BinaryOp", "OpAppend">>, <<"BinaryOp", "OpPrepend">>,
       <<"UnaryOp", "OpReverse">>, <<"UnaryOp", "OpHexlify">>,
       <<"CryptOp", "OpSHA1">>, <<"CryptOp", "OpRIPEMD160">>,
       <<"CryptOp", "OpSHA256">> >>

EmptyDict == [t \in {} |-> "None"]

DictSet(d, key, value) ==
    [k \in DOMAIN d \cup {key} |-> IF k = key THEN value ELSE d[k]]

\* mutant: the registration is not passed on to the base class
register_op_NoBase(regs, cls, subcls) ==
    [regs EXCEPT ![RegistryOf(cls)] =
        DictSet(regs[RegistryOf(cls)], TAG(subcls), subcls)]

RECURSIVE register_op(_, _, _)
register_op(regs, cls, subcls) ==
    LET owner == RegistryOf(cls)
        regs2 == [regs EXCEPT ![owner] = DictSet(regs[owner], TAG(subcls), subcls)]
    IN IF cls # "Op" THEN register_op(regs2, Base(cls), subcls) ELSE regs2

RECURSIVE RegistriesAfter(_)
RegistriesAfter(k) ==
    IF k = 0 THEN [c \in ShapeClasses |-> EmptyDict]
    ELSE register_op(RegistriesAfter(k - 1), Decorators[k][1], Decorators[k][2])

ModuleLoaded == loaded = Len(Decorators)

-----------------------------------------------------------------------------
(* serialize *)

Op_serialize(op, buf) == write_bytes(buf, TAG(op.cls))

UnaryOp_serialize(op, buf) == Op_serialize(op, buf)

\* mutant: the argument is written without its length
BinaryOp_serialize_NoLength(op, buf) ==
    write_bytes(Op_serialize(op, buf), op.args[1])

BinaryOp_serialize(op, buf) == write_varbytes(Op_serialize(op, buf), op.args[1])

serialize(op, buf) ==
    IF Resolve(op.cls) = "BinaryOp" THEN BinaryOp_serialize(op, buf)
    ELSE UnaryOp_serialize(op, buf)

-----------------------------------------------------------------------------
(* deserialize *)

Raise(e, pos) == [ret |-> NoneOp, exc |-> e, pos |-> pos]

\* mutant: UnaryOp's registry is consulted whatever class is asked
UnaryOp_deserialize_from_tag_OwnDict(regs, cls, buf, pos, tag) ==
    LET reg == regs["UnaryOp"]
    IN IF tag \in DOMAIN reg
       THEN [ret |-> UnaryOp_new(reg[tag]).ret, exc |-> NoExc, pos |-> pos]
       ELSE Raise(DeserializationError("Unknown unary op tag 0x", tag), pos)

UnaryOp_deserialize_from_tag(regs, cls, buf, pos, tag) ==
    LET reg == regs[RegistryOf(cls)]
    IN IF tag \in DOMAIN reg
       THEN [ret |-> UnaryOp_new(reg[tag]).ret, exc |-> NoExc, pos |-> pos]
       ELSE Raise(DeserializationError("Unknown unary op tag 0x", tag), pos)

\* mutant: the cap on the argument is 2**17
BinaryOp_deserialize_from_tag_HighCap(regs, cls, buf, pos, tag) ==
    LET reg == regs[RegistryOf(cls)]
    IN IF tag \in DOMAIN reg
       THEN LET arg == read_varbytes(buf, pos, 2 ^ 17)
            IN IF arg.exc # NoExc THEN Raise(arg.exc, arg.pos)
               ELSE LET new == BinaryOp_new(reg[tag], PyBytes(arg.val))
                    IN [ret |-> new.ret, exc |-> new.exc, pos |-> arg.pos]
       ELSE Raise(DeserializationError("Unknown binary op tag 0x", tag), pos)

BinaryOp_deserialize_from_tag(regs, cls, buf, pos, tag) ==
    LET reg == regs[RegistryOf(cls)]
    IN IF tag \in DOMAIN reg
       THEN LET arg == read_varbytes(buf, pos, 2 ^ 16)
            IN IF arg.exc # NoExc THEN Raise(arg.exc, arg.pos)
               ELSE LET new == BinaryOp_new(reg[tag], PyBytes(arg.val))
                    IN [ret |-> new.ret, exc |-> new.exc, pos |-> arg.pos]
       ELSE Raise(DeserializationError("Unknown binary op tag 0x", tag), pos)

\* mutant: an unknown tag yields None instead of an exception
Op_deserialize_from_tag_Lenient(regs, cls, buf, pos, tag) ==
    LET reg == regs[RegistryOf(cls)]
    IN IF tag \in DOMAIN reg
       THEN IF Resolve(reg[tag]) = "BinaryOp"
            THEN BinaryOp_deserialize_from_tag(regs, reg[tag], buf, pos, tag)
            ELSE UnaryOp_deserialize_from_tag(regs, reg[tag], buf, pos, tag)
       ELSE [ret |-> NoneOp, exc |-> NoExc, pos |-> pos]

Op_deserialize_from_tag(regs, cls, buf, pos, tag) ==
    LET reg == regs[RegistryOf(cls)]
    IN IF tag \in DOMAIN reg
       THEN IF Resolve(reg[tag]) = "BinaryOp"
            THEN BinaryOp_deserialize_from_tag(regs, reg[tag], buf, pos, tag)
            ELSE UnaryOp_deserialize_from_tag(regs, reg[tag], buf, pos, tag)
       ELSE Raise(DeserializationError("Unknown operation tag 0x", tag), pos)

deserialize_from_tag(regs, cls, buf, pos, tag) ==
    CASE Resolve(cls) = "Op" -> Op_deserialize_from_tag(regs, cls, buf, pos, tag)
      [] Resolve(cls) = "UnaryOp" ->
            UnaryOp_deserialize_from_tag(regs, cls, buf, pos, tag)
      [] Resolve(cls) = "BinaryOp" ->
            BinaryOp_deserialize_from_tag(regs, cls, buf, pos, tag)

deserialize(regs, cls, buf, pos) ==
    LET tag == read_bytes(buf, pos, 1)
    IN IF tag.exc # NoExc THEN Raise(tag.exc, tag.pos)
       ELSE deserialize_from_tag(regs, cls, buf, tag.pos, tag.val)

-----------------------------------------------------------------------------
(* Comparison.  Python compares two sequences (bytes, tuples) by the first *)
(* index at which they differ and, when there is none, by their lengths.   *)

RECURSIVE FirstDiff(_, _, _)
FirstDiff(s, t, i) ==
    IF i > Min(Len(s), Len(t)) THEN 0
    ELSE IF s[i] # t[i] THEN i
    ELSE FirstDiff(s, t, i + 1)

bytes_lt(s, t) ==
    LET i == FirstDiff(s, t, 1)
    IN IF i = 0 THEN Len(s) < Len(t) ELSE s[i] < t[i]

bytes_le(s, t) ==
    LET i == FirstDiff(s, t, 1)
    IN IF i = 0 THEN Len(s) <= Len(t) ELSE s[i] <= t[i]

bytes_gt(s, t) ==
    LET i == FirstDiff(s, t, 1)
    IN IF i = 0 THEN Len(s) > Len(t) ELSE s[i] > t[i]

bytes_ge(s, t) ==
    LET i == FirstDiff(s, t, 1)
    IN IF i = 0 THEN Len(s) >= Len(t) ELSE s[i] >= t[i]

tuple_lt(s, t) ==
    LET i == FirstDiff(s, t, 1)
    IN IF i = 0 THEN Len(s) < Len(t) ELSE bytes_lt(s[i], t[i])

tuple_le(s, t) ==
    LET i == FirstDiff(s, t, 1)
    IN IF i = 0 THEN Len(s) <= Len(t) ELSE bytes_le(s[i], t[i])

tuple_gt(s, t) ==
    LET i == FirstDiff(s, t, 1)
    IN IF i = 0 THEN Len(s) > Len(t) ELSE bytes_gt(s[i], t[i])

tuple_ge(s, t) ==
    LET i == FirstDiff(s, t, 1)
    IN IF i = 0 THEN Len(s) >= Len(t) ELSE bytes_ge(s[i], t[i])

\* mutant: the tags are not compared
Op_eq_ArgsOnly(self, other) == self.args = other.args

Op_eq(self, other) ==
    TAG(self.cls) = TAG(other.cls) /\ self.args = other.args

Op_ne(self, other) ==
    TAG(self.cls) # TAG(other.cls) \/ self.args # other.args

\* mutant: the tags are not compared
Op_lt_NoTag(self, other) == tuple_lt(self.args, other.args)

Op_lt(self, other) ==
    IF TAG(self.cls) = TAG(other.cls) THEN tuple_lt(self.args, other.args)
    ELSE bytes_lt(TAG(self.cls), TAG(other.cls))

Op_le(self, other) ==
    IF TAG(self.cls) = TAG(other.cls) THEN tuple_le(self.args, other.args)
    ELSE bytes_lt(TAG(self.cls), TAG(other.cls))

Op_gt(self, other) ==
    IF TAG(self.cls) = TAG(other.cls) THEN tuple_gt(self.args, other.args)
    ELSE bytes_gt(TAG(self.cls), TAG(other.cls))

Op_ge(self, other) ==
    IF TAG(self.cls) = TAG(other.cls) THEN tuple_ge(self.args, other.args)
    ELSE bytes_gt(TAG(self.cls), TAG(other.cls))

-----------------------------------------------------------------------------
(* hashlib.  A hash object is the algorithm's name, a chaining value       *)
(* folded over every byte fed so far, and the count of those bytes; the    *)
(* digest is computed from the three.                                      *)

InitialValue(name) ==
    CASE name = "sha1" -> 1
      [] name = "ripemd160" -> 160
      [] name = "sha256" -> 256

digest_size(name) ==
    CASE name = "sha1" -> 20
      [] name = "ripemd160" -> 20
      [] name = "sha256" -> 32

\* the chaining value h after the bytes data[lo..hi], one after the other
\* (the range is halved, and the first half computed before the second is
\* entered, to keep the evaluation shallow)
RECURSIVE Absorb(_, _, _, _)
Absorb(h, data, lo, hi) ==
    IF lo > hi THEN h
    ELSE IF lo = hi THEN (h * 31 + data[lo] + 1) % 65521
    ELSE LET mid == (lo + hi) \div 2
             left == Absorb(h, data, lo, mid)
         IN IF left >= 0 THEN Absorb(left, data, mid + 1, hi) ELSE left

hasher_update(hh, data) ==
    [name |-> hh.name, h |-> Absorb(hh.h, data, 1, Len(data)),
     n |-> hh.n + Len(data)]

hashlib_new(name, data) ==
    hasher_update([name |-> name, h |-> InitialValue(name), n |-> 0], data)

hasher_digest(hh) ==
    [k \in 1..digest_size(hh.name) |-> ((hh.h + hh.n) * k + hh.h \div 256) % 256]

-----------------------------------------------------------------------------
(* __call__ *)

MAX_MSG_LENGTH == 128

HASHLIB_NAME(cls) ==
    CASE cls = "OpSHA1" -> "sha1"
      [] cls = "OpRIPEMD160" -> "ripemd160"
      [] cls = "OpSHA256" -> "sha256"

\* "%d" % n, most significant digit first
RECURSIVE Dec(_)
Dec(n) ==
    IF n < 10 THEN <<HexDigit(n)>>
    ELSE Append(Dec(n \div 10), HexDigit(n % 10))

MsgValueError(length, max) ==
    [type |-> "MsgValueError",
     msg |-> <<"Message too long to hexlify; ">> \o Dec(length) \o <<" > ">>
             \o Dec(max)]

Returns(value) == [out |-> value, exc |-> NoExc]

\* the ASCII code of a lower-case hexadecimal digit
HexChar(d) == IF d < 10 THEN 48 + d ELSE 87 + d

\* binascii.hexlify
hexlify(data) ==
    [i \in 1..(2 * Len(data)) |->
        IF i % 2 = 1 THEN HexChar(data[(i + 1) \div 2] \div 16)
        ELSE HexChar(data[i \div 2] % 16)]

OpAppend_call(self, m) == Returns(m \o self.args[1])

OpPrepend_call(self, m) == Returns(self.args[1] \o m)

OpReverse_call(self, m) == Returns([i \in 1..Len(m) |-> m[Len(m) + 1 - i]])

\* mutant: a message of exactly MAX_MSG_LENGTH bytes is refused
OpHexlify_call_OffByOne(self, m) ==
    IF Len(m) >= MAX_MSG_LENGTH
    THEN [out |-> <<>>, exc |-> MsgValueError(Len(m), MAX_MSG_LENGTH)]
    ELSE Returns(hexlify(m))

OpHexlify_call(self, m) ==
    IF Len(m) > MAX_MSG_LENGTH
    THEN [out |-> <<>>, exc |-> MsgValueError(Len(m), MAX_MSG_LENGTH)]
    ELSE Returns(hexlify(m))

CryptOp_call(self, m) ==
    Returns(hasher_digest(hashlib_new(HASHLIB_NAME(self.cls), m)))

call(self, m) ==
    CASE self.cls = "OpAppend" -> OpAppend_call(self, m)
      [] self.cls = "OpPrepend" -> OpPrepend_call(self, m)
      [] self.cls = "OpReverse" -> OpReverse_call(self, m)
      [] self.cls = "OpHexlify" -> OpHexlify_call(self, m)
      [] OTHER -> CryptOp_call(self, m)

\* fd.read(size) of a file object holding data, pos bytes of it read: any
\* number of the bytes left, at least one and at most size, or b'' at the end
FdRead(data, pos, size) ==
    {SubSeq(data, pos + 1, pos + k) : k \in 1..Min(size, Len(data) - pos)}
    \cup (IF pos >= Len(data) THEN {<<>>} ELSE {})

-----------------------------------------------------------------------------
(* Inputs *)

\* what a caller passes to the constructor of a binary operation written to
\* a stream: short arguments of one byte value, long ones, and a str
ArgValues ==
    {PyBytes(b) : b \in BytesUpTo({240}, MaxArgLen)}
    \cup {PyBytes(Pattern(4, n)) : n \in StreamLens}
    \cup {PyStr(<<97>>)}

\* and of a binary operation sent on a round trip
TripValues ==
    {PyBytes(b) : b \in BytesUpTo(ArgBytes, MaxTripLen)}
    \cup {PyBytes(Pattern(4, n)) : n \in TripLens}
    \cup {PyStr(<<97>>)}

UnaryVariants == {c \in VariantClasses : Resolve(c) = "UnaryOp"}

BinaryVariants == {c \in VariantClasses : Resolve(c) = "BinaryOp"}

-----------------------------------------------------------------------------
(* Module load, then a writer and a reader *)

\* nothing written, no reader
WireIdle ==
    /\ wbuf = <<>>
    /\ written = <<>>
    /\ ropen = FALSE
    /\ rbuf = <<>>
    /\ rpos = 0
    /\ returned = <<>>
    /\ entry = "None"
    /\ ret = NoneOp

CmpIdle ==
    /\ operands = <<>>
    /\ cmp = <<>>

CallIdle ==
    /\ callee = NoneOp
    /\ msg = <<>>
    /\ out = <<>>
    /\ done = FALSE

HashIdle ==
    /\ fpos = 0
    /\ hasher = NoHasher
    /\ delivered = <<>>
    /\ fed = <<>>
    /\ hpc = "idle"

Init ==
    /\ SUBCLS_BY_TAG = RegistriesAfter(0)
    /\ loaded = 0
    /\ WireIdle
    /\ exc = NoExc
    /\ CmpIdle
    /\ CallIdle
    /\ HashIdle

\* the next class definition of the module is executed, and its decorator
Register ==
    /\ loaded < Len(Decorators)
    /\ SUBCLS_BY_TAG' = register_op(SUBCLS_BY_TAG, Decorators[loaded + 1][1],
                                    Decorators[loaded + 1][2])
    /\ loaded' = loaded + 1
    /\ UNCHANGED <<wireVars, exc, cmpVars, callVars, hashVars>>

\* cls().serialize(ctx)
SerializeUnary(cls) ==
    /\ ModuleLoaded
    /\ ~ropen
    /\ Len(written) < MaxOps
    /\ LET new == UnaryOp_new(cls)
       IN /\ Len(serialize(new.ret, wbuf)) <= MaxStreamLen
          /\ wbuf' = serialize(new.ret, wbuf)
          /\ written' = Append(written, new.ret)
          /\ ret' = NoneOp
          /\ exc' = NoExc
    /\ UNCHANGED <<regVars, ropen, rbuf, rpos, returned, entry, cmpVars, callVars, hashVars>>

\* cls(arg).serialize(ctx)
SerializeBinary(cls, arg) ==
    /\ ModuleLoaded
    /\ ~ropen
    /\ Len(written) < MaxOps
    /\ LET new == BinaryOp_new(cls, arg)
       IN IF new.exc # NoExc
          THEN /\ exc' = new.exc
               /\ ret' = NoneOp
               /\ UNCHANGED <<wbuf, written>>
          ELSE /\ Len(serialize(new.ret, wbuf)) <= MaxStreamLen
               /\ wbuf' = serialize(new.ret, wbuf)
               /\ written' = Append(written, new.ret)
               /\ ret' = NoneOp
               /\ exc' = NoExc
    /\ UNCHANGED <<regVars, ropen, rbuf, rpos, returned, entry, cmpVars, callVars, hashVars>>

\* a deserialization context is opened over exactly the bytes written
OpenReader ==
    /\ ModuleLoaded
    /\ ~ropen
    /\ ropen' = TRUE
    /\ rbuf' = wbuf
    /\ rpos' = 0
    /\ returned' = <<>>
    /\ ret' = NoneOp
    /\ exc' = NoExc
    /\ UNCHANGED <<regVars, wbuf, written, entry, cmpVars, callVars, hashVars>>

\* cls.deserialize(ctx)
Deserialize(cls) ==
    /\ ModuleLoaded
    /\ ropen
    /\ exc = NoExc
    /\ LET r == deserialize(SUBCLS_BY_TAG, cls, rbuf, rpos)
       IN /\ rpos' = r.pos
          /\ ret' = r.ret
          /\ exc' = r.exc
          /\ returned' = IF r.exc = NoExc THEN Append(returned, r.ret) ELSE returned
    /\ entry' = cls
    /\ UNCHANGED <<regVars, wbuf, written, ropen, rbuf, cmpVars, callVars, hashVars>>

Next ==
    \/ Register
    \/ \E cls \in UnaryVariants : SerializeUnary(cls)
    \/ \E cls \in BinaryVariants : \E arg \in ArgValues : SerializeBinary(cls, arg)
    \/ OpenReader
    \/ Deserialize("Op")

Spec == Init /\ [][Next]_vars

-----------------------------------------------------------------------------
(* One operation serialized into an empty writer and read back from        *)
(* exactly the bytes written                                               *)

LoadedAndIdle ==
    /\ SUBCLS_BY_TAG = RegistriesAfter(Len(Decorators))
    /\ loaded = Len(Decorators)
    /\ WireIdle
    /\ exc = NoExc
    /\ CmpIdle
    /\ CallIdle
    /\ HashIdle

\* new is what the constructor returned or raised
RoundTripOf(new) ==
    /\ written = <<>>
    /\ exc = NoExc
    /\ IF new.exc # NoExc
       THEN /\ exc' = new.exc
            /\ UNCHANGED <<wireVars>>
       ELSE LET bytes == serialize(new.ret, <<>>)
                r == deserialize(SUBCLS_BY_TAG, "Op", bytes, 0)
            IN /\ written' = <<new.ret>>
               /\ wbuf' = bytes
               /\ ropen' = TRUE
               /\ rbuf' = bytes
               /\ rpos' = r.pos
               /\ entry' = "Op"
               /\ ret' = r.ret
               /\ exc' = r.exc
               /\ returned' = IF r.exc = NoExc THEN <<r.ret>> ELSE <<>>
    /\ UNCHANGED <<regVars, cmpVars, callVars, hashVars>>

\* op = cls(); op.serialize(ctx); Op.deserialize(reader over ctx's bytes)
RoundTripUnary(cls) == RoundTripOf(UnaryOp_new(cls))

\* op = cls(arg); op.serialize(ctx); Op.deserialize(reader over ctx's bytes)
RoundTripBinary(cls, arg) == RoundTripOf(BinaryOp_new(cls, arg))

NextRoundTrip ==
    \/ \E cls \in UnaryVariants : RoundTripUnary(cls)
    \/ \E cls \in BinaryVariants : \E arg \in TripValues : RoundTripBinary(cls, arg)

SpecRoundTrip == LoadedAndIdle /\ [][NextRoundTrip]_vars

-----------------------------------------------------------------------------
(* Deserializing streams that no serialize wrote, through every class *)

\* the argument a crafted stream carries
Payload(n) == Pattern(4, n)

\* a tag, then nothing, or a declared length followed by all of the
\* argument, by all of it and one more byte, or by none of it
CraftedStreams ==
    {<<>>, <<240, 128>>, <<241, 128, 0>>}
    \cup {<<t>> : t \in CraftTags}
    \cup UNION {{write_varuint(<<t>>, d) \o Payload(n) : n \in {0, 1, d, d + 1}} :
                    t \in CraftTags, d \in DeclaredLens}

InitDecode ==
    /\ SUBCLS_BY_TAG = RegistriesAfter(Len(Decorators))
    /\ loaded = Len(Decorators)
    /\ wbuf = <<>>
    /\ written = <<>>
    /\ ropen = TRUE
    /\ rbuf \in CraftedStreams
    /\ rpos = 0
    /\ returned = <<>>
    /\ entry = "None"
    /\ ret = NoneOp
    /\ exc = NoExc
    /\ CmpIdle
    /\ CallIdle
    /\ HashIdle

NextDecode == \E cls \in Classes : Deserialize(cls)

SpecDecode == InitDecode /\ [][NextDecode]_vars

-----------------------------------------------------------------------------
(* The comparison operators on three operations *)

Operations ==
    {UnaryOp_new(c).ret : c \in UnaryVariants}
    \cup {BinaryOp_new(c, PyBytes(b)).ret :
            c \in BinaryVariants, b \in BytesUpTo(ArgBytes, MaxCmpLen)}

Pairs == (1..3) \X (1..3)

InitCmp ==
    /\ SUBCLS_BY_TAG = RegistriesAfter(Len(Decorators))
    /\ loaded = Len(Decorators)
    /\ WireIdle
    /\ exc = NoExc
    /\ operands \in Operations \X Operations \X Operations
    /\ cmp = <<>>
    /\ CallIdle
    /\ HashIdle

\* a == b, a != b, a < b, a <= b, a > b, a >= b for every pair of operands
Compare ==
    /\ ~done
    /\ cmp' = [p \in Pairs |->
                LET a == operands[p[1]]
                    b == operands[p[2]]
                IN [eq |-> Op_eq(a, b), ne |-> Op_ne(a, b), lt |-> Op_lt(a, b),
                    le |-> Op_le(a, b), gt |-> Op_gt(a, b), ge |-> Op_ge(a, b)]]
    /\ done' = TRUE
    /\ UNCHANGED <<regVars, wireVars, exc, operands, callee, msg, out, hashVars>>

SpecCmp == InitCmp /\ [][Compare]_vars

-----------------------------------------------------------------------------
(* An operation applied to a message *)

\* first bytes of the messages
MsgSeeds == {0, 171}

Message(seed, n) == [i \in 1..n |-> (seed + 37 * i) % 256]

Messages == {Message(s, n) : s \in MsgSeeds, n \in 0..MaxMsgLen}

Callees ==
    {UnaryOp_new(c).ret : c \in UnaryVariants}
    \cup {BinaryOp_new(c, PyBytes(b)).ret :
            c \in BinaryVariants, b \in BytesUpTo(ArgBytes, MaxArgLen)}

InitCall ==
    /\ SUBCLS_BY_TAG = RegistriesAfter(Len(Decorators))
    /\ loaded = Len(Decorators)
    /\ WireIdle
    /\ exc = NoExc
    /\ CmpIdle
    /\ callee \in Callees
    /\ msg \in Messages
    /\ out = <<>>
    /\ done = FALSE
    /\ HashIdle

\* callee(msg)
Call ==
    /\ ~done
    /\ out' = call(callee, msg).out
    /\ exc' = call(callee, msg).exc
    /\ done' = TRUE
    /\ UNCHANGED <<regVars, wireVars, cmpVars, callee, msg, hashVars>>

SpecCall == InitCall /\ [][Call]_vars

-----------------------------------------------------------------------------
(* hash_fd, one pass of its loop at a time *)

CryptVariants == {c \in VariantClasses : RegistryOf(c) = "CryptOp"}

InitHash ==
    /\ SUBCLS_BY_TAG = RegistriesAfter(Len(Decorators))
    /\ loaded = Len(Decorators)
    /\ WireIdle
    /\ exc = NoExc
    /\ CmpIdle
    /\ callee \in {UnaryOp_new(c).ret : c \in CryptVariants}
    /\ msg \in BytesUpTo(ArgBytes, MaxHashLen)
    /\ out = <<>>
    /\ done = FALSE
    /\ HashIdle

\* hasher = hashlib.new(self.HASHLIB_NAME)
HashFdEnter ==
    /\ hpc = "idle"
    /\ hasher' = hashlib_new(HASHLIB_NAME(callee.cls), <<>>)
    /\ hpc' = "loop"
    /\ UNCHANGED <<regVars, wireVars, exc, cmpVars, callVars, fpos, delivered, fed>>

\* mutant: each chunk starts a new hash object
HashFdChunk_Restart ==
    /\ hpc = "loop"
    /\ \E chunk \in FdRead(msg, fpos, 2 ^ 20) :
        /\ chunk # <<>>
        /\ fpos' = fpos + Len(chunk)
        /\ delivered' = Append(delivered, chunk)
        /\ hasher' = hashlib_new(HASHLIB_NAME(callee.cls), chunk)
        /\ fed' = Append(fed, chunk)
    /\ UNCHANGED <<regVars, wireVars, exc, cmpVars, callVars, hpc>>

\* chunk = fd.read(2**20), and the hasher.update it leads to
HashFdChunk ==
    /\ hpc = "loop"
    /\ \E chunk \in FdRead(msg, fpos, 2 ^ 20) :
        /\ chunk # <<>>
        /\ fpos' = fpos + Len(chunk)
        /\ delivered' = Append(delivered, chunk)
        /\ hasher' = hasher_update(hasher, chunk)
        /\ fed' = Append(fed, chunk)
    /\ UNCHANGED <<regVars, wireVars, exc, cmpVars, callVars, hpc>>

\* chunk = fd.read(2**20) returns b'': break, return hasher.digest()
HashFdReturn ==
    /\ hpc = "loop"
    /\ \E chunk \in FdRead(msg, fpos, 2 ^ 20) :
        /\ chunk = <<>>
        /\ delivered' = Append(delivered, chunk)
    /\ out' = hasher_digest(hasher)
    /\ done' = TRUE
    /\ hpc' = "done"
    /\ UNCHANGED <<regVars, wireVars, exc, cmpVars, callee, msg, fpos, hasher, fed>>

NextHash == HashFdEnter \/ HashFdChunk \/ HashFdReturn

SpecHash == InitHash /\ [][NextHash]_vars

-----------------------------------------------------------------------------
(* Vocabulary of the properties *)

CatalogueTags == {2, 3, 8, 240, 241, 242, 243}

\* the tags each shape-level class is to accept
FamilyTags(cls) ==
    CASE cls = "Op" -> CatalogueTags
      [] cls = "UnaryOp" -> {242, 243, 2, 3, 8}
      [] cls = "BinaryOp" -> {240, 241}
      [] cls = "CryptOp" -> {2, 3, 8}

DigitValue(ch) ==
    CASE ch = "0" -> 0 [] ch = "1" -> 1 [] ch = "2" -> 2 [] ch = "3" -> 3
      [] ch = "4" -> 4 [] ch = "5" -> 5 [] ch = "6" -> 6 [] ch = "7" -> 7
      [] ch = "8" -> 8 [] ch = "9" -> 9 [] ch = "a" -> 10 [] ch = "b" -> 11
      [] ch = "c" -> 12 [] ch = "d" -> 13 [] ch = "e" -> 14 [] ch = "f" -> 15
      [] OTHER -> 0 - 1

\* the number a sequence of hexadecimal digits denotes, -1 if it is none
RECURSIVE HexValue(_)
HexValue(digits) ==
    IF Len(digits) = 0 THEN 0 - 1
    ELSE LET last == DigitValue(digits[Len(digits)])
             front == SubSeq(digits, 1, Len(digits) - 1)
         IN IF last < 0 THEN 0 - 1
            ELSE IF front = <<>> THEN last
            ELSE IF HexValue(front) < 0 THEN 0 - 1
            ELSE 16 * HexValue(front) + last

UnknownTagError(e) ==
    /\ e.type = "DeserializationError"
    /\ e.msg[1] \in {"Unknown operation tag 0x", "Unknown unary op tag 0x",
                     "Unknown binary op tag 0x"}

\* buf holds the bytes of piece right after its first pos bytes
HoldsAt(buf, pos, piece) ==
    /\ pos + Len(piece) <= Len(buf)
    /\ SubSeq(buf, pos + 1, pos + Len(piece)) = piece

\* how many bytes the wire format gives an operation
VarUintLen(n) == IF n < 128 THEN 1 ELSE IF n < 16384 THEN 2 ELSE 3

WireLen(op) ==
    IF op.args = <<>> THEN 1
    ELSE 1 + VarUintLen(Len(op.args[1])) + Len(op.args[1])

RECURSIVE WireLenOf(_, _)
WireLenOf(ops, k) ==
    IF k = 0 THEN 0 ELSE WireLenOf(ops, k - 1) + WireLen(ops[k])

WithinCap(op) == op.args = <<>> \/ Len(op.args[1]) <= 65536

\* s comes before t in the lexicographic order of byte strings
LexLess(s, t) ==
    \E k \in 1..(Len(t)) :
        /\ k <= Len(s) + 1
        /\ \A j \in 1..(k - 1) : s[j] = t[j]
        /\ k = Len(s) + 1 \/ s[k] < t[k]

RECURSIVE Flatten(_)
Flatten(chunks) ==
    IF chunks = <<>> THEN <<>>
    ELSE Flatten(SubSeq(chunks, 1, Len(chunks) - 1)) \o chunks[Len(chunks)]

\* the first deserialize on the reader has returned or raised
FirstCallDone ==
    /\ ropen
    /\ \/ Len(returned) = 1 /\ exc = NoExc
       \/ returned = <<>> /\ exc # NoExc

-----------------------------------------------------------------------------
(* C1.  Round trip: an operation built from any argument its constructor   *)
(* accepts, serialized into an empty writer and read back by               *)
(* Op.deserialize from exactly those bytes, comes back equal.              *)
C1_RoundTrip ==
    (FirstCallDone /\ Len(written) = 1 /\ rbuf = wbuf /\ entry = "Op") =>
        /\ exc = NoExc
        /\ Op_eq(ret, written[1])
        /\ ~Op_ne(ret, written[1])

(* C2.  hash_fd feeds every chunk the file object delivers to the hasher,  *)
(* in order, stops at the first empty read, and returns what __call__      *)
(* returns on the whole message.                                           *)
C2_StreamingDigest ==
    /\ hpc = "loop" => fed = delivered
    /\ \A i \in 1..Len(fed) : fed[i] # <<>>
    /\ hpc = "done" =>
        /\ delivered = Append(fed, <<>>)
        /\ Flatten(fed) = msg
        /\ out = CryptOp_call(callee, msg).out
        /\ Len(out) = digest_size(HASHLIB_NAME(callee.cls))

C2_Witness ==
    /\ hpc = "done"
    /\ Len(msg) = 4
    /\ Len(fed) = 3
    /\ Len(fed[2]) = 2
    /\ out = CryptOp_call(callee, msg).out

(* C3.  a == b exactly when the tags and the argument tuples are equal,    *)
(* a != b is its negation, and operations of different tags are never      *)
(* equal whatever their arguments.                                         *)
C3_Equality ==
    done =>
        \A p \in Pairs :
            LET a == operands[p[1]]
                b == operands[p[2]]
            IN /\ cmp[p].eq <=> (a.cls = b.cls /\ a.args = b.args)
               /\ cmp[p].ne <=> ~cmp[p].eq
               /\ a.cls # b.cls => ~cmp[p].eq /\ cmp[p].ne

C3_Witness ==
    /\ done
    /\ operands[1] = [cls |-> "OpAppend", args |-> << <<2>> >>]
    /\ operands[2] = [cls |-> "OpPrepend", args |-> << <<2>> >>]
    /\ operands[3] = [cls |-> "OpAppend", args |-> << <<2>> >>]
    /\ ~cmp[<<1, 2>>].eq
    /\ cmp[<<1, 3>>].eq

(* C4.  The comparison operators are a total order consistent with ==:     *)
(* by tag byte first, then by argument lexicographically; exactly one of   *)
(* a < b, a == b, b < a; <=, > and >= are derived from < and ==; and < is  *)
(* transitive.                                                             *)
C4_TotalOrder ==
    done =>
        /\ \A p \in Pairs :
            LET a == operands[p[1]]
                b == operands[p[2]]
                q == <<p[2], p[1]>>
            IN /\ cmp[p].lt <=>
                    IF TAG(a.cls)[1] # TAG(b.cls)[1]
                    THEN TAG(a.cls)[1] < TAG(b.cls)[1]
                    ELSE a.args # <<>> /\ LexLess(a.args[1], b.args[1])
               /\ Cardinality({r \in {"lt", "eq", "gt"} :
                      \/ r = "lt" /\ cmp[p].lt
                      \/ r = "eq" /\ cmp[p].eq
                      \/ r = "gt" /\ cmp[q].lt}) = 1
               /\ cmp[p].le <=> (cmp[p].lt \/ cmp[p].eq)
               /\ cmp[p].gt <=> cmp[q].lt
               /\ cmp[p].ge <=> cmp[q].le
        /\ cmp[<<1, 2>>].lt /\ cmp[<<2, 3>>].lt => cmp[<<1, 3>>].lt

C4_Witness ==
    /\ done
    /\ operands[1] = [cls |-> "OpAppend", args |-> << <<2>> >>]
    /\ operands[2] = [cls |-> "OpAppend", args |-> << <<2, 240>> >>]
    /\ operands[3] = [cls |-> "OpPrepend", args |-> << <<>> >>]
    /\ cmp[<<1, 2>>].lt
    /\ cmp[<<2, 3>>].lt
    /\ cmp[<<1, 3>>].lt

(* C5.  Op.deserialize on a stream whose next byte is no catalogue tag     *)
(* raises DeserializationError with that byte's value in the message,      *)
(* returns no operation and reads nothing after the tag byte.              *)
C5_UnknownTagRejected ==
    [][(entry' = "Op" /\ rpos < Len(rbuf) /\ rbuf[rpos + 1] \notin CatalogueTags) =>
        /\ exc'.type = "DeserializationError"
        /\ Len(exc'.msg) >= 2
        /\ HexValue(Tail(exc'.msg)) = rbuf[rpos + 1]
        /\ ret' = NoneOp
        /\ returned' = returned
        /\ rpos' = rpos + 1]_vars

C5_Witness ==
    /\ entry = "Op"
    /\ Len(rbuf) > 1
    /\ rbuf[1] = 1
    /\ rpos = 1
    /\ exc = [type |-> "DeserializationError",
              msg |-> <<"Unknown operation tag 0x", "1">>]
    /\ ret = NoneOp

(* C6.  Reading a binary operation (tag 0xF0 or 0xF1): a declared length   *)
(* above 65536 fails before any byte of the argument is read and builds    *)
(* no operation; a declared length of at most 65536 with that many bytes   *)
(* present yields the operation of that tag carrying exactly those bytes.  *)
C6_ArgumentCap ==
    [][\A d \in DeclaredLens :
        LET after == rpos + 1 + VarUintLen(d)
        IN (/\ entry' \in {"Op", "BinaryOp", "OpAppend", "OpPrepend"}
            /\ rpos < Len(rbuf)
            /\ rbuf[rpos + 1] \in {240, 241}
            /\ HoldsAt(rbuf, rpos + 1, write_varuint(<<>>, d))) =>
               IF d > 65536
               THEN /\ exc'.type = "DeserializationError"
                    /\ ret' = NoneOp
                    /\ returned' = returned
                    /\ rpos' = after
               ELSE after + d <= Len(rbuf) =>
                        /\ exc' = NoExc
                        /\ TAG(ret'.cls) = <<rbuf[rpos + 1]>>
                        /\ ret'.args = <<SubSeq(rbuf, after + 1, after + d)>>
                        /\ returned' = Append(returned, ret')
                        /\ rpos' = after + d]_vars

C6_Witness ==
    /\ entry = "BinaryOp"
    /\ rbuf = write_varuint(<<241>>, 70000) \o <<5>>
    /\ rpos = 4
    /\ exc.type = "DeserializationError"
    /\ ret = NoneOp

(* C7.  Hexlify applied to a message of at most 128 bytes returns twice as *)
(* many bytes; applied to a longer one it raises MsgValueError and returns *)
(* nothing; so it never returns more than 256 bytes.                       *)
C7_HexlifyBound ==
    (done /\ callee.cls = "OpHexlify") =>
        /\ Len(msg) <= 128 => exc = NoExc /\ Len(out) = 2 * Len(msg)
        /\ Len(msg) >= 129 => exc.type = "MsgValueError" /\ out = <<>>
        /\ Len(out) <= 256

C7_Witness ==
    /\ done
    /\ callee.cls = "OpHexlify"
    /\ Len(msg) = 128
    /\ exc = NoExc
    /\ Len(out) = 256

(* C8.  deserialize called on a shape-level class accepts the tags of that *)
(* class's family and rejects every other catalogue tag with               *)
(* DeserializationError without reading past the tag; and whatever class   *)
(* it is called on, an operation it returns has the tag that was read.     *)
C8_FamilyDispatch ==
    [][(entry' \in Classes /\ rpos < Len(rbuf) /\ rbuf[rpos + 1] \in CatalogueTags) =>
        /\ entry' \in ShapeClasses =>
            IF rbuf[rpos + 1] \in FamilyTags(entry')
            THEN ~UnknownTagError(exc')
            ELSE /\ UnknownTagError(exc')
                 /\ HexValue(Tail(exc'.msg)) = rbuf[rpos + 1]
                 /\ ret' = NoneOp
                 /\ returned' = returned
                 /\ rpos' = rpos + 1
        /\ (entry' \in {"UnaryOp", "CryptOp"} /\ rbuf[rpos + 1] \in FamilyTags(entry'))
              => exc' = NoExc
        /\ exc' = NoExc => TAG(ret'.cls) = <<rbuf[rpos + 1]>>]_vars

C8_Witness ==
    /\ entry = "CryptOp"
    /\ Len(rbuf) > 1
    /\ rbuf[1] = 242
    /\ rpos = 1
    /\ UnknownTagError(exc)
    /\ ret = NoneOp

(* C9.  Reading back a stream of operations whose arguments are within the *)
(* cap: each Op.deserialize returns the next operation written and leaves  *)
(* the reader right after that operation's bytes, so that as many calls as *)
(* operations return them all, in order, with the reader at the end.       *)
C9_ExactConsumption ==
    (ropen /\ \A i \in 1..Len(written) : WithinCap(written[i])) =>
        /\ rbuf = wbuf
        /\ Len(rbuf) = WireLenOf(written, Len(written))
        /\ Len(returned) <= Len(written)
        /\ returned = SubSeq(written, 1, Len(returned))
        /\ rpos = WireLenOf(written, Len(returned))
        /\ exc # NoExc => returned = written
        /\ returned = written => rpos = Len(rbuf)

C9_Witness ==
    /\ ropen
    /\ exc = NoExc
    /\ Len(written) = 2
    /\ written[1].cls = "OpPrepend"
    /\ Len(written[1].args[1]) = 128
    /\ written[2].cls = "OpSHA256"
    /\ returned = written
    /\ rpos = Len(rbuf)

(* C10.  Once the seven registrations have run: the variants' tags are     *)
(* distinct; every entry of a registry maps a tag to the variant of that   *)
(* tag; the registry of Op holds the seven catalogue tags and is the union *)
(* of the registries of UnaryOp and BinaryOp, which are disjoint; BinaryOp *)
(* holds 0xF0 and 0xF1; CryptOp holds 0x02, 0x03 and 0x08 and is part of   *)
(* UnaryOp's; and no registration replaces an entry made before it.        *)
RegistriesComplete ==
    LET all == SUBCLS_BY_TAG["Op"]
        unary == SUBCLS_BY_TAG["UnaryOp"]
        binary == SUBCLS_BY_TAG["BinaryOp"]
        crypt == SUBCLS_BY_TAG["CryptOp"]
    IN /\ \A c1, c2 \in VariantClasses : TAG(c1) = TAG(c2) => c1 = c2
       /\ \A o \in ShapeClasses : \A t \in DOMAIN SUBCLS_BY_TAG[o] :
              /\ SUBCLS_BY_TAG[o][t] \in VariantClasses
              /\ TAG(SUBCLS_BY_TAG[o][t]) = t
       /\ DOMAIN all = {<<t>> : t \in CatalogueTags}
       /\ DOMAIN all = DOMAIN unary \cup DOMAIN binary
       /\ DOMAIN unary \cap DOMAIN binary = {}
       /\ DOMAIN binary = {<<240>>, <<241>>}
       /\ DOMAIN crypt = {<<2>>, <<3>>, <<8>>}
       /\ DOMAIN crypt \subseteq DOMAIN unary

C10_Registries ==
    /\ [](ModuleLoaded => RegistriesComplete)
    /\ [][\A o \in ShapeClasses : \A t \in DOMAIN SUBCLS_BY_TAG[o] :
            /\ t \in DOMAIN SUBCLS_BY_TAG'[o]
            /\ SUBCLS_BY_TAG'[o][t] = SUBCLS_BY_TAG[o][t]]_vars

C10_Witness ==
    /\ ModuleLoaded
    /\ Cardinality(DOMAIN SUBCLS_BY_TAG["Op"]) = 7
    /\ SUBCLS_BY_TAG["UnaryOp"][<<8>>] = "OpSHA256"
    /\ SUBCLS_BY_TAG["CryptOp"][<<8>>] = "OpSHA256"

====
